---------------------------- MODULE Spec2Model ----------------------------
(***************************************************************************)
(* Model of the answerlist front end: the host App (src/src/App.jsx), the  *)
(* Login flow (src/src/components/Login.jsx) and the part of the Dashboard *)
(* (src/src/components/Dashboard.jsx) that reaches logout.                 *)
(*                                                                         *)
(* JavaScript runs each handler to its next await atomically, so one       *)
(* action is one handler up to its await, or one continuation after it.    *)
(***************************************************************************)
EXTENDS Integers, Sequences, FiniteSets, Bags, TLC

(***************************************************************************)
(* Bounds of the model.                                                    *)
(***************************************************************************)
\* exchange requests that may be in flight at once
MaxInflight == 2
\* Dashboard requests that may be in flight at once
MaxDash == 1
\* item-list requests that may be in flight at once
MaxAll == 2
\* entries the user may add
MaxAdds == 1
MaxSearch == 2

(***************************************************************************)
(* JavaScript values: undefined and strings, kept apart by a tag so that   *)
(* typeof, truthiness and String() can be computed.                        *)
(***************************************************************************)
Undef == [t |-> "undefined", v |-> ""]
Str(s) == [t |-> "string", v |-> s]

IsString(x) == x.t = "string"

\* String(x), as localStorage.setItem applies it to a value
JsString(x) == IF x.t = "undefined" THEN "undefined" ELSE x.v

\* the identity assertions the credential provider may yield
Creds == {"tok-A", "tok-B"}
NoCred == "null"

\* the display names the user may type: the empty one, a blank one, and a name
\* that starts with a blank
Names == {<<>>, <<" ">>, <<" ", "g">>}

RECURSIVE TrimLeft(_)
TrimLeft(s) == IF s # <<>> /\ Head(s) = " " THEN TrimLeft(Tail(s)) ELSE s

RECURSIVE TrimRight(_)
TrimRight(s) ==
    IF s # <<>> /\ s[Len(s)] = " " THEN TrimRight(SubSeq(s, 1, Len(s) - 1)) ELSE s

\* String.prototype.trim
Trim(s) == TrimRight(TrimLeft(s))

\* a validation that forgets the trim: only the empty name is refused
IsBlankNoTrim(s) == s = <<>>

\* !displayName.trim()
IsBlank(s) == Trim(s) = <<>>

(***************************************************************************)
(* Responses of the exchange endpoint, as axios hands them to the caller:  *)
(* resolved (2xx) with a body, or rejected with err.response.status, where *)
(* http = 0 stands for a rejection without err.response (transport error). *)
(***************************************************************************)
Statuses == {Undef, Str("login_success"), Str("register_required"), Str("register_success")}
AccessTokens == {Undef, Str(""), Str("abc")}
Usernames == {Undef, Str("Ada")}

NullData == [isNull |-> TRUE, status |-> Undef, access_token |-> Undef, username |-> Undef]
Bodies ==
    {NullData} \cup
    [isNull : {FALSE}, status : Statuses, access_token : AccessTokens, username : Usernames]

Resolved == [ok : {TRUE}, http : {200, 202}, data : Bodies]
Rejected == [ok : {FALSE}, http : {401, 403, 500, 0}, data : {NullData}]
Responses == Resolved \cup Rejected

(***************************************************************************)
(* The user object and durable storage.  JSON text is a set of key/value   *)
(* pairs: JSON.stringify leaves out the keys whose value is undefined.     *)
(***************************************************************************)
NullUser == [isNull |-> TRUE, name |-> Undef, token |-> Undef]
UserObj(n, t) == [isNull |-> FALSE, name |-> n, token |-> t]

Stringify(u) ==
    (IF u.name.t # "undefined" THEN {<<"name", u.name>>} ELSE {}) \cup
    (IF u.token.t # "undefined" THEN {<<"token", u.token>>} ELSE {})

Garbage == {<<"{", Undef>>}
CanParse(text) == text # Garbage
Field(text, k) == IF \E p \in text : p[1] = k THEN (CHOOSE p \in text : p[1] = k)[2] ELSE Undef
Parse(text) == UserObj(Field(text, "name"), Field(text, "token"))

NoItem == [present |-> FALSE, v |-> ""]
NoText == [present |-> FALSE, text |-> {}]
EmptyStorage == [access_token |-> NoItem, user_data |-> NoText]

\* a string read back from storage is truthy when the key exists and is not ''
TruthyItem(i) == i.present /\ i.v # ""
TruthyText(i) == i.present

(***************************************************************************)
(* The messages Login.jsx shows.                                           *)
(***************************************************************************)
NoError == ""
MsgUnexpected == "Unexpected response from server."
MsgBackend == "Authentication failed with backend."
MsgAuthFailed == "Authentication failed."
MsgNameRequired == "Please enter a display name."
MsgRegistrationFailed == "Registration failed."
MsgGoogleFailed == "Google Login Failed"
\* the message Login.test.jsx expects for a 401
MsgInvalidCredentials == "Authentication failed: Invalid credentials."

VARIABLES
    user,          \* App: the user object, or NullUser
    storage,       \* localStorage: access_token and user_data
    error,         \* Login: the message shown
    isLoggingIn,   \* Login: the in-progress flag
    isRegistering, \* Login: the registration form is shown
    displayName,   \* Login: the name typed
    googleToken,   \* Login: the assertion kept for registration
    inflight,      \* the bag of exchange requests awaiting their response
    dashPending,   \* Dashboard requests awaiting their response
    failed,        \* assertions whose exchange failed and that the provider has not yielded again
    required,      \* history: assertions the mounted Login saw answered with register_required
    prior,         \* history: what storage held just before the Session now stored was written
    dashStale,     \* how many of the pending Dashboard requests outlived their Dashboard
    providerSession, \* the provider holds a session for automatic sign-in
    hasError,      \* ErrorBoundary: a descendant has thrown
    query,         \* Dashboard: the search input
    question,      \* Dashboard: the add form's question
    answer,        \* Dashboard: the add form's answer
    adding,        \* Dashboard: an /add request awaits its response
    items,         \* Dashboard: the item list shown, entries named by their server position
    loadingItems,  \* Dashboard: the item-list loading flag
    hasMore,       \* Dashboard: the sentinel of the infinite scroll is rendered
    allPending,    \* the bag of offsets of the /all requests awaiting their response
    effectsRun,    \* Dashboard: the mount effect has run
    serverLen,     \* the number of entries the server holds
    loads,         \* history: pages loaded while the server list was steady
    steady,        \* history: the server list is as at mount and every answer was a page of it
    added,         \* history: entries added by the user
    results,       \* Dashboard: the search results shown
    loadingSearch, \* Dashboard: the search loading flag
    searchPending, \* the bag of queries of the /search requests awaiting their response
    lastSearch,    \* history: the query of the search issued last
    searchOk       \* history: every /search answer so far was a result list

\* the variables of the Dashboard's search
search == <<results, loadingSearch, searchPending, lastSearch, searchOk>>

\* the variables of the Dashboard and the error boundary
dash == <<hasError, query, question, answer, adding, items, loadingItems, hasMore,
          allPending, effectsRun, serverLen, loads, steady, added, search>>

\* the variables of the Login flow
login == <<error, isLoggingIn, isRegistering, displayName, googleToken, inflight, failed,
           required>>

vars == <<user, storage, error, isLoggingIn, isRegistering, displayName, googleToken,
          inflight, dashPending, failed, required, prior, dashStale, providerSession,
          hasError, query, question, answer, adding, items, loadingItems, hasMore,
          allPending, effectsRun, serverLen, loads, steady, added,
          results, loadingSearch, searchPending, lastSearch, searchOk>>

\* the name key of a request payload: left out, or the name given
NoName == [present |-> FALSE, v |-> <<>>]
Named(s) == [present |-> TRUE, v |-> s]

\* a payload that leaves the name out whatever the caller gives
RequestTokenOnly(first, token, name) ==
    [live |-> TRUE, first |-> first, token |-> token, name |-> NoName]

\* an exchange request: the payload {token, name?} and whether the Login instance
\* that awaits the answer is still mounted
Request(first, token, name) == [live |-> TRUE, first |-> first, token |-> token, name |-> name]
\* a request that is sent twice
OneTwice(r) == SetToBag({r}) (+) SetToBag({r})

\* one axios.post call
One(r) == SetToBag({r})

\* App renders Login when user is falsy, Dashboard otherwise
LoginMounted == user.isNull
DashboardMounted == ~user.isNull
\* Login renders the GoogleLogin widget when the registration form is not shown
WidgetRendered == LoginMounted /\ ~isRegistering
FormRendered == LoginMounted /\ isRegistering
SubmitEnabled == FormRendered /\ ~isLoggingIn

\* a Login that starts on the registration form
LoginInitialFormShown ==
    /\ error = NoError
    /\ isLoggingIn = FALSE
    /\ isRegistering = TRUE
    /\ displayName = <<>>
    /\ googleToken = NoCred

\* the useState initial values of Login
LoginInitial ==
    /\ error = NoError
    /\ isLoggingIn = FALSE
    /\ isRegistering = FALSE
    /\ displayName = <<>>
    /\ googleToken = NoCred

\* the useState initialiser of App
RestoredUser(st) ==
    IF TruthyItem(st.access_token) /\ TruthyText(st.user_data) /\ CanParse(st.user_data.text)
    THEN Parse(st.user_data.text)
    ELSE NullUser

StorageAfterRestore(st) ==
    IF TruthyItem(st.access_token) /\ TruthyText(st.user_data) /\ ~CanParse(st.user_data.text)
    THEN EmptyStorage
    ELSE st

\* the useState initial values of Dashboard and the initial state of ErrorBoundary
DashboardInitial ==
    /\ hasError = FALSE
    /\ query = ""
    /\ question = ""
    /\ answer = ""
    /\ adding = FALSE
    /\ items = <<>>
    /\ loadingItems = FALSE
    /\ hasMore = TRUE
    /\ allPending = EmptyBag
    /\ effectsRun = FALSE
    /\ loads = 0
    /\ steady = TRUE
    /\ added = 0
    /\ results = <<>>
    /\ loadingSearch = FALSE
    /\ searchPending = EmptyBag
    /\ lastSearch = ""
    /\ searchOk = TRUE

Init ==
    /\ DashboardInitial
    /\ serverLen = 0
    /\ storage = EmptyStorage
    /\ user = RestoredUser(storage)
    /\ LoginInitial
    /\ inflight = EmptyBag
    /\ dashPending = 0
    /\ failed = {}
    /\ required = {}
    /\ prior = EmptyStorage
    /\ dashStale = 0
    /\ providerSession = FALSE

(***************************************************************************)
(* Login.jsx: the decisions of the two exchange continuations.             *)
(***************************************************************************)
\* a reading of the response that looks for the token before the status
GoogleOutcomeTokenFirst(resp) ==
    IF ~resp.ok THEN "rejected"
    ELSE IF ~resp.data.isNull /\ IsString(resp.data.access_token) THEN "success"
    ELSE IF ~resp.data.isNull /\ resp.data.status = Str("register_required") THEN "register"
    ELSE "unexpected"

\* a reading of the response that takes every body without the marker for a success
GoogleOutcomeElseSuccess(resp) ==
    IF ~resp.ok THEN "rejected"
    ELSE IF ~resp.data.isNull /\ resp.data.status = Str("register_required") THEN "register"
    ELSE IF ~resp.data.isNull THEN "success"
    ELSE "unexpected"

\* handleGoogleSuccess: the branch taken on the answer
GoogleOutcome(resp) ==
    IF ~resp.ok THEN "rejected"
    ELSE IF ~resp.data.isNull /\ resp.data.status = Str("register_required") THEN "register"
    ELSE IF ~resp.data.isNull /\ resp.data.status = Str("login_success") THEN "success"
    ELSE "unexpected"

\* handleGoogleSuccess, the catch block
GoogleCatchMessage(resp) ==
    IF resp.http # 0 /\ resp.http = 202 THEN MsgBackend ELSE MsgAuthFailed

\* a reading of the response that takes every body with a status for a success
RegisterOutcomeAnyStatus(resp) ==
    IF resp.ok /\ ~resp.data.isNull /\ IsString(resp.data.status)
    THEN "success"
    ELSE "failed"

\* handleRegisterSubmit: the branch taken on the answer
RegisterOutcome(resp) ==
    IF resp.ok /\ ~resp.data.isNull /\ resp.data.status = Str("login_success")
    THEN "success"
    ELSE "failed"

\* handleLoginSuccess: the name kept for the session
SafeUsername(data) == IF IsString(data.username) THEN data.username ELSE Str("User")

SessionOf(data) == UserObj(SafeUsername(data), data.access_token)

\* a write that adds the new record's fields to those already stored
StorageOfMerged(data) ==
    [access_token |-> [present |-> TRUE, v |-> JsString(data.access_token)],
     user_data |-> [present |-> TRUE,
                    text |-> storage.user_data.text \cup Stringify(SessionOf(data))]]

\* handleLoginSuccess: the two setItem calls
StorageOf(data) ==
    [access_token |-> [present |-> TRUE, v |-> JsString(data.access_token)],
     user_data |-> [present |-> TRUE, text |-> Stringify(SessionOf(data))]]

\* the requests left in flight once Login is unmounted: their setState calls are lost
Orphan(r) == [r EXCEPT !.live = FALSE]
Orphaned(reqs) == BagOfAll(Orphan, reqs)

\* handleLoginSuccess; setUser(userData) makes App render Dashboard in place of Login
LoginSuccess(data, rest) ==
    /\ storage' = StorageOf(data)
    /\ user' = SessionOf(data)
    /\ error' = NoError
    /\ isLoggingIn' = FALSE
    /\ isRegistering' = FALSE
    /\ displayName' = <<>>
    /\ googleToken' = NoCred
    /\ inflight' = Orphaned(rest)
    /\ required' = {}
    /\ prior' = storage

(***************************************************************************)
(* Login.jsx: the handlers.                                                *)
(***************************************************************************)
\* GoogleLogin onSuccess: handleGoogleSuccess up to its await
GoogleSuccess(c) ==
    /\ UNCHANGED dash
    /\ WidgetRendered
    /\ BagCardinality(inflight) < MaxInflight
    /\ isLoggingIn' = TRUE
    /\ error' = NoError
    /\ inflight' = inflight (+) One(Request(TRUE, c, NoName))
    /\ failed' = failed \ {c}
    /\ providerSession' = TRUE
    /\ UNCHANGED <<user, storage, isRegistering, displayName, googleToken, dashPending,
                   required, prior, dashStale>>

\* handleGoogleSuccess after its await, for the request r answered with resp
GoogleResponse(r, resp) ==
    /\ UNCHANGED dash
    /\ BagIn(r, inflight)
    /\ r.first
    /\ UNCHANGED <<dashPending, dashStale, providerSession>>
    /\ LET out == GoogleOutcome(resp)
           rest == inflight (-) One(r)
       IN  /\ failed' = IF out \in {"rejected", "unexpected"} THEN failed \cup {r.token} ELSE failed
           /\ IF out = "success"
              THEN LoginSuccess(resp.data, rest)
              ELSE /\ inflight' = rest
                   /\ UNCHANGED <<user, storage, displayName, prior>>
                   /\ required' = IF r.live /\ out = "register"
                                  THEN required \cup {r.token} ELSE required
                   /\ IF ~r.live
                      THEN UNCHANGED <<error, isLoggingIn, isRegistering, googleToken>>
                      ELSE IF out = "register"
                      THEN /\ googleToken' = r.token
                           /\ isRegistering' = TRUE
                           /\ isLoggingIn' = FALSE
                           /\ UNCHANGED error
                      ELSE /\ error' = IF out = "unexpected" THEN MsgUnexpected
                                       ELSE GoogleCatchMessage(resp)
                           /\ isLoggingIn' = FALSE
                           /\ UNCHANGED <<isRegistering, googleToken>>

\* GoogleLogin onError: handleError
GoogleError ==
    /\ UNCHANGED dash
    /\ WidgetRendered
    /\ error' = MsgGoogleFailed
    /\ UNCHANGED <<user, storage, isLoggingIn, isRegistering, displayName, googleToken,
                   inflight, dashPending, failed, required, prior, dashStale, providerSession>>

\* the display-name input's onChange
ChangeName(v) ==
    /\ UNCHANGED dash
    /\ FormRendered
    /\ displayName' = v
    /\ error' = NoError
    /\ UNCHANGED <<user, storage, isLoggingIn, isRegistering, googleToken,
                   inflight, dashPending, failed, required, prior, dashStale, providerSession>>

\* the submit button's onClick: handleRegisterSubmit up to its return or await
RegisterSubmit ==
    /\ UNCHANGED dash
    /\ SubmitEnabled
    /\ IF IsBlank(displayName)
       THEN /\ error' = MsgNameRequired
            /\ UNCHANGED <<isLoggingIn, inflight>>
       ELSE /\ BagCardinality(inflight) < MaxInflight
            /\ isLoggingIn' = TRUE
            /\ inflight' = inflight (+) One(Request(FALSE, googleToken, Named(displayName)))
            /\ UNCHANGED error
    /\ UNCHANGED <<user, storage, isRegistering, displayName, googleToken, dashPending, failed,
                   required, prior, dashStale, providerSession>>

\* handleRegisterSubmit after its await, for the request r answered with resp
RegisterResponse(r, resp) ==
    /\ UNCHANGED dash
    /\ BagIn(r, inflight)
    /\ ~r.first
    /\ UNCHANGED <<dashPending, dashStale, providerSession>>
    /\ LET out == RegisterOutcome(resp)
           rest == inflight (-) One(r)
       IN  /\ failed' = IF out = "failed" THEN failed \cup {r.token} ELSE failed
           /\ IF out = "success"
              THEN LoginSuccess(resp.data, rest)
              ELSE /\ inflight' = rest
                   /\ UNCHANGED <<user, storage, displayName, isRegistering, googleToken,
                                  required, prior>>
                   /\ IF ~r.live
                      THEN UNCHANGED <<error, isLoggingIn>>
                      ELSE /\ error' = MsgRegistrationFailed
                           /\ isLoggingIn' = FALSE

(***************************************************************************)
(* App.jsx and the Dashboard's way to logout.                              *)
(***************************************************************************)
\* a catch block that calls logout on every failure
CallsLogoutOnFailure(http) == http # 200

\* the catch blocks of the Dashboard: err.response && err.response.status === 401
CallsLogout(http) == http = 401

\* a logout that forgets the stored keys
HandleLogoutKeepsStorage ==
    /\ providerSession' = FALSE
    /\ storage' = storage
    /\ user' = NullUser
    /\ prior' = EmptyStorage

\* handleLogout: googleLogout(), both keys removed, setUser(null)
HandleLogout ==
    /\ providerSession' = FALSE
    /\ storage' = EmptyStorage
    /\ user' = NullUser
    /\ prior' = EmptyStorage

\* the Dashboard's logout button; the Dashboard is unmounted and its pending
\* requests outlive it
Logout ==
    /\ UNCHANGED dash
    /\ DashboardMounted
    /\ HandleLogout
    /\ dashStale' = dashPending
    /\ UNCHANGED <<error, isLoggingIn, isRegistering, displayName, googleToken,
                   inflight, dashPending, failed, required>>

\* a Dashboard request (search, item list or add) is issued
DashRequest ==
    /\ UNCHANGED dash
    /\ DashboardMounted
    /\ dashPending < MaxDash
    /\ dashPending' = dashPending + 1
    /\ UNCHANGED <<user, storage, error, isLoggingIn, isRegistering, displayName, googleToken,
                   inflight, failed, required, prior, dashStale, providerSession>>

\* a request of the mounted Dashboard is answered: only a rejection with status
\* 401 calls logout
DashResponse(http) ==
    /\ UNCHANGED dash
    /\ dashPending > dashStale
    /\ dashPending' = dashPending - 1
    /\ IF CallsLogout(http)
       THEN HandleLogout /\ dashStale' = dashPending - 1
       ELSE UNCHANGED <<user, storage, prior, dashStale, providerSession>>
    /\ UNCHANGED <<error, isLoggingIn, isRegistering, displayName, googleToken,
                   inflight, failed, required>>

\* a request that outlived its Dashboard is answered: its catch block still runs
StaleDashResponse(http) ==
    /\ UNCHANGED dash
    /\ dashStale > 0
    /\ dashPending' = dashPending - 1
    /\ IF CallsLogout(http)
       THEN HandleLogout /\ dashStale' = dashPending - 1
       ELSE dashStale' = dashStale - 1 /\ UNCHANGED <<user, storage, prior, providerSession>>
    /\ UNCHANGED <<error, isLoggingIn, isRegistering, displayName, googleToken,
                   inflight, failed, required>>

\* the page is reloaded: pending callbacks are gone, App and Login start again
Reload ==
    /\ UNCHANGED dash
    /\ user' = RestoredUser(storage)
    /\ storage' = StorageAfterRestore(storage)
    /\ error' = NoError
    /\ isLoggingIn' = FALSE
    /\ isRegistering' = FALSE
    /\ displayName' = <<>>
    /\ googleToken' = NoCred
    /\ inflight' = EmptyBag
    /\ dashPending' = 0
    /\ required' = {}
    /\ prior' = EmptyStorage
    /\ dashStale' = 0
    /\ UNCHANGED <<failed, providerSession>>

Next ==
    \/ \E c \in Creds : GoogleSuccess(c)
    \/ \E r \in BagToSet(inflight), resp \in Responses : GoogleResponse(r, resp)
    \/ GoogleError
    \/ \E v \in Names : ChangeName(v)
    \/ RegisterSubmit
    \/ \E r \in BagToSet(inflight), resp \in Responses : RegisterResponse(r, resp)
    \/ Logout
    \/ DashRequest
    \/ \E http \in {200, 401, 500} : DashResponse(http)
    \/ \E http \in {200, 401, 500} : StaleDashResponse(http)
    \/ Reload

Spec == Init /\ [][Next]_vars

\* what localStorage may hold under the two keys when the page is opened: the
\* key missing, an empty string, a value the application wrote, a record that
\* is no JSON
StoredTokens == {NoItem, [present |-> TRUE, v |-> ""], [present |-> TRUE, v |-> "abc"]}
StoredRecords == {NoText, [present |-> TRUE, text |-> Garbage],
                  [present |-> TRUE, text |-> Stringify(UserObj(Str("Ada"), Str("abc")))]}

\* the page shows Login over a storage that other code of the origin has written
StartupInit ==
    /\ DashboardInitial
    /\ serverLen = 0
    /\ storage \in [access_token : StoredTokens, user_data : StoredRecords]
    /\ user = NullUser
    /\ LoginInitial
    /\ inflight = EmptyBag
    /\ dashPending = 0
    /\ failed = {}
    /\ required = {}
    /\ prior = EmptyStorage
    /\ dashStale = 0
    /\ providerSession = FALSE

StartupSpec == StartupInit /\ [][Next]_vars

(***************************************************************************)
(* Dashboard.jsx and ErrorBoundary.jsx: the item list, the add form and    *)
(* the handlers' identities, for a Dashboard opened with a stored Session. *)
(* The server's list is the entries 1..serverLen in server order; an added *)
(* entry is taken to come last.                                            *)
(***************************************************************************)
ITEMS_PER_PAGE == 10

\* the sizes of the server's list at page load
ServerSizes == {0, 3, 10, 25}
\* what the user may type in the search input and in the add form
Queries == {"", "q"}
Questions == {"", "Q"}
Answers == {"", "A"}

Min(a, b) == IF a < b THEN a ELSE b

\* an array entry that is null
NullEntry == 0

\* the server's answer to /all?limit=..&offset=..: that slice of its list
ServerSlice(offset, limit) ==
    [i \in 1..(Min(offset + limit, serverLen) - Min(offset, serverLen)) |-> offset + i]

\* a list that keeps only the page just loaded
NextItemsReplace(prev, data, offset) == data

\* fetchItems: setItems(data) for offset 0, setItems(prev => [...prev, ...data]) otherwise
NextItems(prev, data, offset) == IF offset = 0 THEN data ELSE prev \o data

\* a list that asks for more until an empty page arrives
NextHasMoreUntilEmpty(data) == Len(data) > 0

\* fetchItems: setHasMore
NextHasMore(data) == ~(Len(data) < ITEMS_PER_PAGE)

\* an error boundary that ignores the error
GetDerivedStateFromErrorIgnored == FALSE

\* ErrorBoundary.getDerivedStateFromError: the hasError it returns
GetDerivedStateFromError == TRUE

\* App renders Dashboard for a user, inside ErrorBoundary's children
DashVisible == DashboardMounted /\ ~hasError

\* rendering the item list throws on a null entry: items.map reads item.id
RenderThrows(its, q) == q = "" /\ \E i \in DOMAIN its : its[i] = NullEntry

\* hasError after a render of the Dashboard with that list and query
Rendered(its, q) == IF RenderThrows(its, q) THEN GetDerivedStateFromError ELSE hasError

\* the useCallback dependencies that decide each handler's identity; the logout
\* prop is a new function whenever App renders, which is whenever user changes
LogoutIdentity == user
HandleSearchDeps == <<query, user.token, LogoutIdentity>>
FetchItemsDeps == <<user.token, LogoutIdentity>>
HandleAddDeps == <<question, answer, user.token, FetchItemsDeps, LogoutIdentity>>

\* fetchItems(offset) up to its await
FetchItems(offset) ==
    /\ loadingItems' = TRUE
    /\ allPending' = allPending (+) SetToBag({offset})

\* the mount effect: fetchItems(0)
Mount ==
    /\ DashVisible
    /\ ~effectsRun
    /\ effectsRun' = TRUE
    /\ FetchItems(0)
    /\ UNCHANGED <<hasError, query, question, answer, adding, items, hasMore, serverLen,
                   loads, steady, added>>
    /\ UNCHANGED <<user, storage, prior, providerSession, dashPending, dashStale, login>>
    /\ UNCHANGED search

\* the IntersectionObserver callback with isIntersecting true
Intersect ==
    /\ DashVisible
    /\ effectsRun
    /\ query = ""
    /\ hasMore /\ ~loadingItems
    /\ BagCardinality(allPending) < MaxAll
    /\ FetchItems(Len(items))
    /\ UNCHANGED <<hasError, query, question, answer, adding, items, hasMore, serverLen,
                   effectsRun, loads, steady, added>>
    /\ UNCHANGED <<user, storage, prior, providerSession, dashPending, dashStale, login>>
    /\ UNCHANGED search

\* the answers to /all: a page of the list, a body that is no array, an array
\* with a null entry, a rejection, a rejection with status 401
AllKinds == {"page", "notArray", "nulls", "error", "unauthorized"}

\* fetchItems after its await, for the request of offset o
AllResponse(o, kind) ==
    /\ BagIn(o, allPending)
    /\ allPending' = allPending (-) SetToBag({o})
    /\ IF kind = "unauthorized"
       THEN HandleLogout
       ELSE UNCHANGED <<user, storage, prior, providerSession>>
    /\ UNCHANGED <<dashPending, dashStale, login>>
    /\ UNCHANGED search
    /\ UNCHANGED <<query, question, answer, adding, effectsRun, serverLen, added>>
    /\ LET data == IF kind = "page" THEN ServerSlice(o, ITEMS_PER_PAGE)
                   ELSE IF kind = "nulls" THEN <<NullEntry>>
                   ELSE <<>>
       IN  IF ~DashVisible
           THEN UNCHANGED <<hasError, items, hasMore, loadingItems, loads, steady>>
           ELSE /\ loadingItems' = FALSE
                /\ IF kind \in {"error", "unauthorized"}
                   THEN UNCHANGED <<hasError, items, hasMore, loads, steady>>
                   ELSE /\ items' = NextItems(items, data, o)
                        /\ hasMore' = NextHasMore(data)
                        /\ hasError' = Rendered(items', query)
                        /\ loads' = IF steady /\ kind = "page" THEN loads + 1 ELSE loads
                        /\ steady' = (steady /\ kind = "page")

\* the search input's onChange
TypeQuery(v) ==
    /\ DashVisible
    /\ effectsRun
    /\ v # query
    /\ query' = v
    /\ hasError' = Rendered(items, v)
    /\ UNCHANGED <<question, answer, adding, items, loadingItems, hasMore, allPending,
                   effectsRun, serverLen, loads, steady, added>>
    /\ UNCHANGED <<user, storage, prior, providerSession, dashPending, dashStale, login>>
    /\ UNCHANGED search

\* the add form's question input's onChange
TypeQuestion(v) ==
    /\ DashVisible
    /\ effectsRun
    /\ v # question
    /\ question' = v
    /\ UNCHANGED <<hasError, query, answer, adding, items, loadingItems, hasMore, allPending,
                   effectsRun, serverLen, loads, steady, added>>
    /\ UNCHANGED <<user, storage, prior, providerSession, dashPending, dashStale, login>>
    /\ UNCHANGED search

\* the add form's answer input's onChange
TypeAnswer(v) ==
    /\ DashVisible
    /\ effectsRun
    /\ v # answer
    /\ answer' = v
    /\ UNCHANGED <<hasError, query, question, adding, items, loadingItems, hasMore,
                   allPending, effectsRun, serverLen, loads, steady, added>>
    /\ UNCHANGED <<user, storage, prior, providerSession, dashPending, dashStale, login>>
    /\ UNCHANGED search

\* the add form's onSubmit: handleAdd up to its await; both inputs are required
\* and the submit button is disabled while adding
SubmitAdd ==
    /\ DashVisible
    /\ effectsRun
    /\ ~adding
    /\ question # "" /\ answer # ""
    /\ added < MaxAdds
    /\ adding' = TRUE
    /\ UNCHANGED <<hasError, query, question, answer, items, loadingItems, hasMore,
                   allPending, effectsRun, serverLen, loads, steady, added>>
    /\ UNCHANGED <<user, storage, prior, providerSession, dashPending, dashStale, login>>
    /\ UNCHANGED search

\* handleAdd after its await; adding also marks the /add request in flight
AddResponse(kind) ==
    /\ adding
    /\ adding' = FALSE
    /\ IF kind = "unauthorized"
       THEN HandleLogout
       ELSE UNCHANGED <<user, storage, prior, providerSession>>
    /\ UNCHANGED <<dashPending, dashStale, login>>
    /\ UNCHANGED search
    /\ UNCHANGED <<hasError, query, items, hasMore, effectsRun, loads>>
    /\ IF kind = "ok"
       THEN /\ BagCardinality(allPending) < MaxAll
            /\ serverLen' = serverLen + 1
            /\ added' = added + 1
            /\ steady' = FALSE
            /\ allPending' = allPending (+) SetToBag({0})
            /\ IF DashVisible
               THEN question' = "" /\ answer' = "" /\ loadingItems' = TRUE
               ELSE UNCHANGED <<question, answer, loadingItems>>
       ELSE UNCHANGED <<question, answer, loadingItems, allPending, serverLen, added, steady>>

\* what the user may type in the search input when searching
SearchQueries == {"", " ", "q", "r"}

\* the characters of a search text
Chars(q) ==
    CASE q = "" -> <<>>
      [] q = " " -> <<" ">>
      [] q = "q" -> <<"q">>
      [] q = "r" -> <<"r">>

\* the server's answer to /search?q=..: the entries matching that query
Found(q) == <<q>>

\* the search input's onKeyDown with Enter: handleSearch up to its await; it has
\* no condition on a search in progress and the input is never disabled
SearchEnter ==
    /\ DashVisible
    /\ effectsRun
    /\ ~IsBlank(Chars(query))
    /\ BagCardinality(searchPending) < MaxSearch
    /\ loadingSearch' = TRUE
    /\ searchPending' = searchPending (+) SetToBag({query})
    /\ lastSearch' = query
    /\ UNCHANGED <<results, searchOk>>
    /\ UNCHANGED <<hasError, query, question, answer, adding, items, loadingItems, hasMore,
                   allPending, effectsRun, serverLen, loads, steady, added>>
    /\ UNCHANGED <<user, storage, prior, providerSession, dashPending, dashStale, login>>

\* the answers to /search: a result list, a body that is no array, a rejection,
\* a rejection with status 401
SearchKinds == {"results", "notArray", "error", "unauthorized"}

\* handleSearch after its await, for the request of query q
SearchResponse(q, kind) ==
    /\ BagIn(q, searchPending)
    /\ searchPending' = searchPending (-) SetToBag({q})
    /\ searchOk' = (searchOk /\ kind = "results")
    /\ IF kind = "unauthorized"
       THEN HandleLogout
       ELSE UNCHANGED <<user, storage, prior, providerSession>>
    /\ IF ~DashVisible
       THEN UNCHANGED <<results, loadingSearch>>
       ELSE /\ loadingSearch' = FALSE
            /\ results' = IF kind = "results" THEN Found(q)
                          ELSE IF kind = "notArray" THEN <<>>
                          ELSE results
    /\ UNCHANGED lastSearch
    /\ UNCHANGED <<hasError, query, question, answer, adding, items, loadingItems, hasMore,
                   allPending, effectsRun, serverLen, loads, steady, added>>
    /\ UNCHANGED <<dashPending, dashStale, login>>

\* the page is opened with the Session {name: 'Ada', token: 'abc'} in storage
DashInit ==
    /\ DashboardInitial
    /\ serverLen \in ServerSizes
    /\ storage = StorageOf([isNull |-> FALSE, status |-> Str("login_success"),
                            access_token |-> Str("abc"), username |-> Str("Ada")])
    /\ user = RestoredUser(storage)
    /\ LoginInitial
    /\ inflight = EmptyBag
    /\ dashPending = 0
    /\ failed = {}
    /\ required = {}
    /\ prior = EmptyStorage
    /\ dashStale = 0
    /\ providerSession = TRUE

DashNext ==
    \/ Mount
    \/ Intersect
    \/ \E o \in BagToSet(allPending), kind \in AllKinds : AllResponse(o, kind)
    \/ \E v \in Queries : TypeQuery(v)
    \/ \E v \in Questions : TypeQuestion(v)
    \/ \E v \in Answers : TypeAnswer(v)
    \/ SubmitAdd
    \/ \E kind \in {"ok", "error", "unauthorized"} : AddResponse(kind)
    \/ ~hasError /\ Logout

DashSpec == DashInit /\ [][DashNext]_vars

\* scrolling through a list that does not change, every request answered with its
\* page: no add, no failure, no logout
ScrollNext ==
    \/ Mount
    \/ Intersect
    \/ \E o \in BagToSet(allPending) : AllResponse(o, "page")
    \/ \E v \in Queries : TypeQuery(v)
    \/ \E v \in Questions : TypeQuestion(v)
    \/ \E v \in Answers : TypeAnswer(v)

\* React runs the mount effect; every request is answered; the sentinel is
\* scrolled into view again and again, which is an intersection event whenever
\* the observer's conditions hold at that moment
ScrollSpec ==
    /\ DashInit
    /\ [][ScrollNext]_vars
    /\ WF_vars(Mount)
    /\ WF_vars(\E o \in BagToSet(allPending) : AllResponse(o, "page"))
    /\ SF_vars(Intersect)

\* searching in a Dashboard whose server list is empty
SearchInit == DashInit /\ serverLen = 0

SearchNext ==
    \/ Mount
    \/ \E o \in BagToSet(allPending) : AllResponse(o, "page")
    \/ \E v \in SearchQueries : TypeQuery(v)
    \/ SearchEnter
    \/ \E q \in BagToSet(searchPending), kind \in SearchKinds : SearchResponse(q, kind)
    \/ ~hasError /\ Logout

SearchSpec == SearchInit /\ [][SearchNext]_vars

(***************************************************************************)
(* Vocabulary of the properties.                                           *)
(***************************************************************************)
\* the body carries access_token and username
CarriesSession(resp) ==
    /\ resp.ok
    /\ ~resp.data.isNull
    /\ IsString(resp.data.access_token)
    /\ IsString(resp.data.username)

\* the Session {name: username, token: access_token} of such a body
ExpectedSession(resp) == UserObj(resp.data.username, resp.data.access_token)

\* the requests a step may have answered: fewer copies are in flight afterwards
Answered == {r \in BagToSet(inflight) : CopiesIn(r, inflight') < CopiesIn(r, inflight)}
\* the requests issued in a step: a request starts live, and one more copy is in flight
Issued == {q \in BagToSet(inflight') : q.live /\ CopiesIn(q, inflight') > CopiesIn(q, inflight)}

\* durable storage holds a serialized Session record
StorageHoldsSession == storage.user_data.present

\* the requests in flight of the mounted Login instance, and how many they are
Pending == {r \in BagToSet(inflight) : r.live}
PendingCount == BagCardinality([r \in Pending |-> inflight[r]])

Unauthorized == {resp \in Rejected : resp.http \in {401, 403}}
Generic == Rejected \ Unauthorized
RegisterRequired ==
    {resp \in Resolved : ~resp.data.isNull /\ resp.data.status = Str("register_required")}

\* empty, or nothing but blanks
OnlyBlanks(s) == \A i \in DOMAIN s : s[i] = " "

\* The flow states of the spec, read off a pending request r and the view:
\* Exchanging is a first exchange pending under the provider widget,
\* Submitting is a registration exchange pending under the registration form.
Exchanging(r) == r.live /\ r.first /\ WidgetRendered
Submitting(r) == r.live /\ ~r.first /\ FormRendered

\* the step answers r with resp and takes the flow from Exchanging or Submitting to Failed
EndsInFailed(r, resp) ==
    \/ Exchanging(r) /\ GoogleResponse(r, resp) /\ GoogleOutcome(resp) \in {"rejected", "unexpected"}
    \/ Submitting(r) /\ RegisterResponse(r, resp) /\ RegisterOutcome(resp) = "failed"

(***************************************************************************)
(* C1: every first-exchange response whose body carries access_token and   *)
(* username, with status 'login_success' or no status, under HTTP 200 or   *)
(* 202, makes the controller call setUser with {name: username,            *)
(* token: access_token}.                                                   *)
(***************************************************************************)
C1_DirectTokenAuthenticates ==
    [][\A r \in Answered : \A resp \in Resolved :
          (/\ r.first
           /\ CarriesSession(resp)
           /\ resp.data.status \in {Undef, Str("login_success")}
           /\ GoogleResponse(r, resp))
          => user' = ExpectedSession(resp)]_vars

(***************************************************************************)
(* C2: in the registration path a second-exchange response that carries    *)
(* access_token and username (status 'register_success', for one) makes    *)
(* the controller call setUser with {name: username, token: access_token}. *)
(***************************************************************************)
C2_RegistrationAuthenticates ==
    [][\A r \in Answered : \A resp \in Resolved :
          (/\ ~r.first
           /\ CarriesSession(resp)
           /\ resp.data.status # Str("register_required")
           /\ RegisterResponse(r, resp))
          => user' = ExpectedSession(resp)]_vars

(***************************************************************************)
(* C3: from empty storage on, after any sequence of sign-in, registration, *)
(* failure, logout and reload, the user is authenticated (App's user is    *)
(* non-null, Dashboard mounted) exactly when durable storage holds a       *)
(* Session record.                                                         *)
(***************************************************************************)
C3_AuthenticatedIffStored == DashboardMounted <=> StorageHoldsSession

(***************************************************************************)
(* C4: at most one exchange request of a Login flow instance is in flight  *)
(* at any time, because the provider widget and the submit button cannot   *)
(* start a second one while one is pending.                                *)
(***************************************************************************)
C4_OneExchangeInFlight == PendingCount <= 1

(***************************************************************************)
(* C5: a 401 answer to either exchange call leaves the flow Failed with    *)
(* the invalid-credentials message, with the registration form not shown   *)
(* and the user not authenticated.                                         *)
(***************************************************************************)
C5_UnauthorizedFails ==
    [][\A r \in Answered : \A resp \in Rejected :
          (/\ r.live
           /\ resp.http = 401
           /\ GoogleResponse(r, resp) \/ RegisterResponse(r, resp))
          => /\ error' = MsgInvalidCredentials
             /\ ~FormRendered'
             /\ ~DashboardMounted']_vars

(***************************************************************************)
(* C6: the message shown tells three kinds of failure apart: after a 401   *)
(* or 403 it is the invalid-credentials message, which is neither the      *)
(* message of a generic server or transport failure nor the message for an *)
(* empty display name.                                                     *)
(***************************************************************************)
C6_MessagesDistinguished ==
    [][\A r \in Answered : \A resp \in Unauthorized :
          (r.live /\ GoogleResponse(r, resp))
          => /\ error' = MsgInvalidCredentials
             /\ \A g \in Generic : error' # GoogleCatchMessage(g)
             /\ error' # MsgNameRequired]_vars

(***************************************************************************)
(* C7: a first-exchange answer {status: 'register_required'} brings the    *)
(* mounted flow to AwaitingProfile: the registration form is shown with    *)
(* its submit button enabled and the assertion of that request is kept;    *)
(* and while the form is shown a request is issued only by a submit with a *)
(* name that is not blank, and it carries that name.                       *)
(***************************************************************************)
C7_RegisterRequiredAwaitsProfile ==
    /\ [][\A r \in Answered : \A resp \in RegisterRequired :
             (r.first /\ r.live /\ GoogleResponse(r, resp))
             => /\ SubmitEnabled'
                /\ googleToken' = r.token]_vars
    /\ [][(FormRendered /\ Issued # {})
             => /\ RegisterSubmit
                /\ ~OnlyBlanks(displayName)
                /\ \A q \in Issued : ~q.first /\ q.name = Named(displayName)]_vars

\* the form is shown for tok-B while the exchange of tok-A is still pending
C7_Witness ==
    /\ SubmitEnabled
    /\ googleToken = "tok-B"
    /\ \E r \in Pending : r.first /\ r.token = "tok-A"

(***************************************************************************)
(* C8: a submit with an empty or blank display name issues no request,     *)
(* leaves the registration form shown and the kept assertion unchanged,    *)
(* and sets an error message.                                              *)
(***************************************************************************)
C8_BlankNameRejectedLocally ==
    [][(OnlyBlanks(displayName) /\ RegisterSubmit)
          => /\ inflight' = inflight
             /\ FormRendered'
             /\ googleToken' = googleToken
             /\ error' # NoError]_vars

\* a blank name has been submitted: only that submit sets this message
C8_Witness ==
    /\ FormRendered
    /\ displayName = <<" ">>
    /\ error = MsgNameRequired
    /\ googleToken \in Creds
    /\ inflight = EmptyBag

(***************************************************************************)
(* C9: when an exchange ends in Failed, in Exchanging or in Submitting,    *)
(* its assertion is discarded: the flow no longer holds it, and no later   *)
(* request carries it unless the provider has yielded it again.            *)
(***************************************************************************)
C9_FailedAssertionDiscarded ==
    /\ [][\A r \in Answered : \A resp \in Responses :
             EndsInFailed(r, resp) => googleToken' # r.token]_vars
    /\ [][\A q \in Issued : ~q.first => q.token \notin failed]_vars

(***************************************************************************)
(* C10: after every failure of an exchange, in Exchanging or in            *)
(* Submitting, the provider widget is rendered, so that a new provider     *)
(* success event can start the flow again at Exchanging.                   *)
(***************************************************************************)
C10_FailedOffersProvider ==
    [][\A r \in Answered : \A resp \in Responses :
          EndsInFailed(r, resp) => WidgetRendered']_vars

\* the step answers r with resp and runs handleLoginSuccess: the Session is written
WritesSession(r, resp) ==
    \/ GoogleResponse(r, resp) /\ GoogleOutcome(resp) = "success"
    \/ RegisterResponse(r, resp) /\ RegisterOutcome(resp) = "success"

\* the step runs handleLogout, from the logout button or from a 401 of a Dashboard
\* request, of the mounted Dashboard or of an earlier one
LogoutExecutes == Logout \/ DashResponse(401) \/ StaleDashResponse(401)

(***************************************************************************)
(* C11: the two writers of the durable Session slot never overlap: logout  *)
(* runs only while the Dashboard is mounted and no exchange is in flight,  *)
(* and a flow writes the Session only while the Dashboard is not mounted.  *)
(***************************************************************************)
C11_WritersExclusive ==
    /\ [][LogoutExecutes => (DashboardMounted /\ inflight = EmptyBag)]_vars
    /\ [][\A r \in Answered : \A resp \in Resolved :
             WritesSession(r, resp) => ~DashboardMounted]_vars

(***************************************************************************)
(* C12: a Session is written only for a response that carries both an      *)
(* access token and a username: the stored record then has that token and  *)
(* a display name equal to the username, and a 'login_success' body that   *)
(* lacks either writes nothing.                                            *)
(***************************************************************************)
C12_SessionNeedsTokenAndName ==
    [][\A r \in Answered : \A resp \in Resolved :
          WritesSession(r, resp)
          => /\ CarriesSession(resp)
             /\ Parse(storage'.user_data.text) = ExpectedSession(resp)
             /\ storage'.access_token = [present |-> TRUE, v |-> resp.data.access_token.v]]_vars

\* 2xx answers without a recognized shape: no body, or a status that is neither
\* marker and no token
Unrecognized ==
    {resp \in Resolved :
        \/ resp.data.isNull
        \/ /\ resp.data.status \notin {Str("login_success"), Str("register_required")}
           /\ resp.data.access_token = Undef}

\* a message of the generic kind: shown, and neither the invalid-credentials
\* message nor the one for an empty name
GenericMessage(m) == m \notin {NoError, MsgInvalidCredentials, MsgNameRequired}

(***************************************************************************)
(* C13: a 2xx answer without a recognized shape is handled as a rejection: *)
(* the handler runs to its end for every such answer, the mounted flow     *)
(* shows a generic message with the in-progress flag cleared, storage is   *)
(* left as it was and setUser is not called.                               *)
(***************************************************************************)
C13_UnrecognizedRejected ==
    /\ [](\A r \in BagToSet(inflight) : \A resp \in Unrecognized :
             ENABLED (GoogleResponse(r, resp) \/ RegisterResponse(r, resp)))
    /\ [][\A r \in Answered : \A resp \in Unrecognized :
             (GoogleResponse(r, resp) \/ RegisterResponse(r, resp))
             => /\ storage' = storage
                /\ user' = user
                /\ r.live => (GenericMessage(error') /\ ~isLoggingIn')]_vars

\* the first exchange was answered without a recognized shape: only that sets
\* this message
C13_Witness ==
    /\ WidgetRendered
    /\ error = MsgUnexpected
    /\ ~isLoggingIn
    /\ storage = EmptyStorage
    /\ inflight = EmptyBag

(***************************************************************************)
(* C14: a 'register_required' answer to the registration exchange is a     *)
(* failure: the mounted flow shows an error with the in-progress flag      *)
(* cleared, the step issues no request, and nobody is authenticated by it. *)
(***************************************************************************)
C14_RegisterRequiredInSubmittingFails ==
    [][\A r \in Answered : \A resp \in RegisterRequired :
          (~r.first /\ RegisterResponse(r, resp))
          => /\ Issued = {}
             /\ user' = user
             /\ storage' = storage
             /\ r.live => (error' # NoError /\ ~isLoggingIn')]_vars

\* a registration exchange has failed and the form waits for the user
C14_Witness ==
    /\ FormRendered
    /\ error = MsgRegistrationFailed
    /\ ~isLoggingIn
    /\ inflight = EmptyBag
    /\ storage = EmptyStorage

(***************************************************************************)
(* C15: every registration request of the mounted flow carries an          *)
(* assertion whose first exchange that flow has already seen answered      *)
(* with 'register_required'.                                               *)
(***************************************************************************)
C15_RegistrationAfterFirstAnswer ==
    \A r \in Pending : ~r.first => r.token \in required

\* a registration exchange is pending after the register_required answer for tok-B
C15_Witness ==
    /\ required = {"tok-B"}
    /\ \E r \in Pending : ~r.first /\ r.token = "tok-B"

(***************************************************************************)
(* C16: a request issued by a provider success event carries the yielded   *)
(* assertion and no name; a request issued by the registration submit      *)
(* carries the assertion that was answered with 'register_required' and    *)
(* the display name as the user typed it.                                  *)
(***************************************************************************)
C16_RequestPayloads ==
    [][\A q \in Issued :
          IF q.first
          THEN /\ GoogleSuccess(q.token)
               /\ q.name = NoName
          ELSE /\ RegisterSubmit
               /\ q.token = googleToken
               /\ q.token \in required
               /\ q.name = Named(displayName)]_vars

\* the registration request for tok-A with the name typed is in flight
C16_Witness ==
    /\ googleToken = "tok-A"
    /\ \E r \in Pending : ~r.first /\ r.token = "tok-A" /\ r.name = Named(<<" ", "g">>)

\* the answers that end the exchange r in failure: rejections, 2xx answers without
\* a recognized shape and, for a registration exchange, 'register_required'
FailureAnswers(r) ==
    Rejected \cup Unrecognized \cup (IF r.first THEN {} ELSE RegisterRequired)

(***************************************************************************)
(* C17: an exchange that ends in failure (rejection, transport error,      *)
(* unrecognized answer) and a submit refused for its blank name leave      *)
(* durable storage as it was and do not call setUser.                      *)
(***************************************************************************)
C17_FailureWritesNothing ==
    /\ [][\A r \in Answered : \A resp \in FailureAnswers(r) :
             (GoogleResponse(r, resp) \/ RegisterResponse(r, resp))
             => (storage' = storage /\ user' = user)]_vars
    /\ [][(OnlyBlanks(displayName) /\ RegisterSubmit)
             => (storage' = storage /\ user' = user)]_vars

\* a rejected exchange has left the record found in storage untouched
C17_Witness ==
    /\ LoginMounted
    /\ error = MsgAuthFailed
    /\ ~isLoggingIn
    /\ storage.user_data.present
    /\ "tok-A" \in failed

\* the stored form of the Session {name: username, token: access_token} of a body
\* that carries both
StoredSession(resp) ==
    [access_token |-> [present |-> TRUE, v |-> resp.data.access_token.v],
     user_data |-> [present |-> TRUE,
                    text |-> {<<"name", resp.data.username>>,
                              <<"token", resp.data.access_token>>}]]

(***************************************************************************)
(* C18: a successful authentication replaces the stored Session as a       *)
(* whole: every field stored afterwards comes from that response, for a    *)
(* response with token and username storage is exactly its Session, and    *)
(* when storage already holds the result of that response it is unchanged. *)
(***************************************************************************)
C18_SessionReplacedWholesale ==
    [][\A r \in Answered : \A resp \in Resolved :
          WritesSession(r, resp)
          => /\ \A p \in storage'.user_data.text :
                   \/ p[1] = "token" /\ p[2] = resp.data.access_token
                   \/ p[1] = "name" /\ p[2] \in {resp.data.username, Str("User")}
             /\ CarriesSession(resp) => storage' = StoredSession(resp)
             /\ storage = StorageOf(resp.data) => storage' = storage]_vars

\* a Session with token 'abc' has replaced a stored Session with another token
C18_Witness ==
    /\ prior.user_data.present
    /\ prior.access_token.v # "abc"
    /\ storage.access_token.v = "abc"
    /\ Field(storage.user_data.text, "name") = Str("Ada")

\* the step is a failure path of the mounted flow: a provider failure event, a
\* submit with a blank name, or an exchange answered with a failure
FailurePath ==
    \/ GoogleError
    \/ OnlyBlanks(displayName) /\ RegisterSubmit
    \/ \E r \in Answered : \E resp \in Responses :
          /\ r.live
          /\ \/ GoogleResponse(r, resp) /\ GoogleOutcome(resp) \in {"rejected", "unexpected"}
             \/ RegisterResponse(r, resp) /\ RegisterOutcome(resp) = "failed"

(***************************************************************************)
(* C19: after every failure path of the flow an error message is shown and *)
(* the in-progress flag is cleared.                                        *)
(***************************************************************************)
C19_FailureShowsErrorAndReleases ==
    [][FailurePath => (error' # NoError /\ ~isLoggingIn')]_vars

\* the step is a user input that starts an exchange or edits the name
UserInput ==
    \/ \E v \in Names : ChangeName(v)
    \/ \E c \in Creds : GoogleSuccess(c)
    \/ ~OnlyBlanks(displayName) /\ RegisterSubmit

(***************************************************************************)
(* C20: after the user edits the display name or starts a new exchange (a  *)
(* provider success event, or a submit with a name that is not blank) no   *)
(* error message is shown.                                                 *)
(***************************************************************************)
C20_ErrorClearedOnInput ==
    [][UserInput => error' = NoError]_vars

(***************************************************************************)
(* C21: the system retries nothing: a step that issues an exchange request *)
(* issues exactly one and is a provider success event or a submit click,   *)
(* and a step that answers a request, a failure included, issues none.     *)
(***************************************************************************)
C21_NoAutomaticRetry ==
    /\ [][Issued # {}
             => /\ \E q \in Issued : inflight' = inflight (+) SetToBag({q})
                /\ (\E c \in Creds : GoogleSuccess(c)) \/ RegisterSubmit]_vars
    /\ [][Answered # {} => Issued = {}]_vars

\* the exchange of tok-B has failed and nothing is in flight
C21_Witness ==
    /\ WidgetRendered
    /\ error = MsgAuthFailed
    /\ failed = {"tok-B"}
    /\ inflight = EmptyBag
    /\ storage = EmptyStorage

(***************************************************************************)
(* C22: logout removes both stored keys, ends the provider's session and   *)
(* sets the user to absent: after it Login is mounted and storage holds no *)
(* Session.                                                                *)
(***************************************************************************)
C22_LogoutClearsSession ==
    [][LogoutExecutes
          => /\ storage' = EmptyStorage
             /\ ~providerSession'
             /\ user' = NullUser
             /\ LoginMounted'
             /\ ~StorageHoldsSession']_vars

\* the user has logged out while a Dashboard request was pending
C22_Witness ==
    /\ LoginMounted
    /\ storage = EmptyStorage
    /\ ~providerSession
    /\ dashStale = 1

(***************************************************************************)
(* C23: a page reload restores what the host held: after a successful      *)
(* authentication the reload yields the same user and the Dashboard, and   *)
(* after a logout it yields no user and Login.                             *)
(***************************************************************************)
C23_SessionSurvivesReload ==
    /\ [][Reload => user' = user]_vars
    /\ [][LogoutExecutes => RestoredUser(storage') = NullUser]_vars

(***************************************************************************)
(* C27: a 401 answer to a Dashboard request of an earlier session, arriving *)
(* after a later login, leaves the stored Session and the user as they     *)
(* are.                                                                    *)
(***************************************************************************)
C27_Late401KeepsNewSession ==
    [][(DashboardMounted /\ StaleDashResponse(401))
          => (storage' = storage /\ user' = user)]_vars

(***************************************************************************)
(* C28: logout is final until the user signs in again: it leaves no        *)
(* Session and no user, the user becomes authenticated again only by the   *)
(* answer to an exchange of the Login mounted since, and the answer to an  *)
(* exchange started before the logout changes neither storage nor user.    *)
(***************************************************************************)
C28_LogoutFinal ==
    /\ [][LogoutExecutes => (LoginMounted' /\ ~StorageHoldsSession')]_vars
    /\ [][(LoginMounted /\ DashboardMounted') => \E r \in Answered : r.live]_vars
    /\ [][\A r \in Answered : \A resp \in Responses :
             (/\ ~r.live
              /\ LoginMounted
              /\ GoogleResponse(r, resp) \/ RegisterResponse(r, resp))
             => (storage' = storage /\ user' = user)]_vars

(***************************************************************************)
(* C29: while Login is mounted, isLoggingIn is true exactly when at least  *)
(* one of its exchange requests is in flight.                              *)
(***************************************************************************)
C29_FlagIffPending == LoginMounted => (isLoggingIn <=> PendingCount > 0)

\* the first n entries of the server's list, in server order
Prefix(n) == [i \in 1..n |-> i]

(***************************************************************************)
(* C24: the item list is paged in steps of 10: the mount effect requests   *)
(* offset 0, an intersection event requests offset = the number of items   *)
(* shown and only while hasMore is true and no list fetch is loading, and  *)
(* after k loaded pages of an unchanging server list of N entries the      *)
(* items are its first min(10k, N) entries in server order.                *)
(***************************************************************************)
C24_ItemListPaged ==
    /\ [][Mount => allPending' = SetToBag({0})]_vars
    /\ [][Intersect
             => /\ hasMore /\ ~loadingItems
                /\ allPending' = allPending (+) SetToBag({Len(items)})]_vars
    /\ [](steady => items = Prefix(Min(ITEMS_PER_PAGE * loads, serverLen)))

\* three pages of a list of 25 entries have been loaded
C24_Witness ==
    /\ steady
    /\ loads = 3
    /\ Len(items) = 25
    /\ ~hasMore
    /\ allPending = EmptyBag

(***************************************************************************)
(* C25: the error boundary latches: a render of the Dashboard that throws  *)
(* sets hasError, hasError once true stays true, and from then on the      *)
(* fallback is shown in place of the children, whose state changes no      *)
(* more.                                                                   *)
(***************************************************************************)
C25_ErrorBoundaryLatches ==
    /\ [][(DashVisible /\ RenderThrows(items', query')) => hasError']_vars
    /\ [][hasError => hasError']_vars
    /\ [][hasError => UNCHANGED <<query, question, answer, items, loadingItems, hasMore>>]_vars

\* the second page came with a null entry and its render has thrown
C25_Witness ==
    /\ hasError
    /\ Len(items) = 11
    /\ items[11] = NullEntry
    /\ allPending = EmptyBag

(***************************************************************************)
(* C26: the handlers are memoized: the search key handler keeps its        *)
(* identity when the query or the question changes, the add-form submit    *)
(* handler keeps its identity when the query changes and gets a new one    *)
(* when the question changes.                                              *)
(***************************************************************************)
C26_HandlersMemoized ==
    /\ [][((\E v \in Queries : TypeQuery(v)) \/ (\E v \in Questions : TypeQuestion(v)))
             => HandleSearchDeps' = HandleSearchDeps]_vars
    /\ [][(\E v \in Queries : TypeQuery(v)) => HandleAddDeps' = HandleAddDeps]_vars
    /\ [][(\E v \in Questions : TypeQuestion(v)) => HandleAddDeps' # HandleAddDeps]_vars

(***************************************************************************)
(* C30: at most one item-list request of the Dashboard is in flight at any *)
(* time.                                                                   *)
(***************************************************************************)
C30_OneListRequest == BagCardinality(allPending) <= 1

(***************************************************************************)
(* C34: a Dashboard request rejected with status 401 calls logout, after   *)
(* which storage holds no Session and Login is mounted; an answer with any *)
(* other status leaves storage and the user as they are.                   *)
(***************************************************************************)
C34_Only401LogsOut ==
    [][\A http \in {200, 401, 500} :
          (DashResponse(http) \/ StaleDashResponse(http))
          => IF http = 401
             THEN storage' = EmptyStorage /\ ~StorageHoldsSession' /\ LoginMounted'
             ELSE storage' = storage /\ user' = user]_vars

\* after a sign-in the user has been logged out and the Dashboard's request is answered
C34_Witness ==
    /\ LoginMounted
    /\ storage = EmptyStorage
    /\ ~providerSession
    /\ failed = {"tok-B"}
    /\ dashPending = 0
    /\ inflight = EmptyBag

\* the list holds the first entries of the server's list, each once, in order
ServerPrefix(its, n) == Len(its) <= n /\ its = Prefix(Len(its))

(***************************************************************************)
(* C31: the items are always a prefix of the server's list, no entry       *)
(* twice: a page of the list answered to any pending /all request turns a  *)
(* prefix into a prefix, whatever intersections, refreshes after an add    *)
(* and order of answers came before.                                       *)
(***************************************************************************)
C31_ItemsStayPrefix ==
    [][\A o \in BagToSet(allPending) :
          DashVisible /\ AllResponse(o, "page") /\ ServerPrefix(items, serverLen)
          => ServerPrefix(items', serverLen')]_vars

\* the whole server list is shown and nothing more is asked for
Exhausted == ~hasMore /\ items = Prefix(serverLen) /\ allPending = EmptyBag

(***************************************************************************)
(* C33: with a server list that does not change and no failing request,    *)
(* intersection events that keep coming (the all-items view is shown again *)
(* and again) lead to hasMore = false with the whole server list in items; *)
(* hasMore turns false exactly on the answer of a page of fewer than       *)
(* ITEMS_PER_PAGE entries; and once it is false no list request is issued. *)
(***************************************************************************)
C33_ScrollingExhaustsList ==
    /\ ([]<>(query = "")) => <>Exhausted
    /\ [][(hasMore /\ ~hasMore')
          <=> \E o \in BagToSet(allPending) :
                 /\ AllResponse(o, "page")
                 /\ Len(ServerSlice(o, ITEMS_PER_PAGE)) < ITEMS_PER_PAGE]_vars
    /\ [][~hasMore => ~hasMore' /\ allPending' = allPending /\ items' = items]_vars

\* the list of 25 entries has been loaded in three pages and hasMore is false
C33_Witness ==
    /\ serverLen = 25
    /\ Exhausted
    /\ loads = 3
    /\ ~loadingItems

(***************************************************************************)
(* C35: at startup a user is restored only when storage holds the          *)
(* access-token key and a user record that parses; when both keys are held *)
(* and the record does not parse, both keys are removed and the user is    *)
(* absent; when either key is missing the user is absent and storage is    *)
(* left as it was.                                                         *)
(***************************************************************************)
C35_StartupRestore ==
    [][Reload =>
          /\ ~user'.isNull
             => /\ storage.access_token.present
                /\ storage.user_data.present
                /\ CanParse(storage.user_data.text)
          /\ (/\ storage.access_token.present
              /\ storage.user_data.present
              /\ ~CanParse(storage.user_data.text))
             => storage' = EmptyStorage /\ user'.isNull
          /\ (~storage.access_token.present \/ ~storage.user_data.present)
             => user'.isNull /\ storage' = storage]_vars

(***************************************************************************)
(* C32: once every search request is answered, each with a result list,    *)
(* the results shown are those of the search issued last, in whatever      *)
(* order the answers of overlapping searches arrived.                      *)
(***************************************************************************)
C32_LatestSearchShown ==
    (/\ DashVisible
     /\ searchPending = EmptyBag
     /\ searchOk
     /\ lastSearch # "")
    => results = Found(lastSearch)

=============================================================================
